---- MODULE Spec2Model ----
(***************************************************************************)
(* Model of src/server.js: the conversation store, the bearer-credential   *)
(* middleware, GET/DELETE /api/conversations/:id and POST /api/chat in     *)
(* both provider variants contained in the file (OpenRouter, lines 1-269;  *)
(* Groq with cross-chat memory, lines 270-519).                            *)
(*                                                                         *)
(* Text is a sequence of one-character strings, so substring, length and   *)
(* lower-casing are computed as the code computes them.                    *)
(*                                                                         *)
(* Every await of the source is a suspension point: an action runs from    *)
(* the completion of one awaited call to the start of the next one, and    *)
(* the store operation of an awaited read or delete takes effect in the    *)
(* action that completes it.  The write of save() is applied by the store  *)
(* in one action and its await returns in a later one, so other requests   *)
(* can act on the store in between.  Document.save() inserts a document    *)
(* made by new Conversation(...); for one that findOne returned it updates *)
(* stored document by _id with the pushed messages and updatedAt, and      *)
(* throws when no stored document has that _id.                            *)
(***************************************************************************)
EXTENDS Integers, Sequences, FiniteSets, TLC

(***************************************************************************)
(* Text                                                                    *)
(***************************************************************************)
UpperChars ==
  <<"A","B","C","D","E","F","G","H","I","J","K","L","M","N","O","P","Q","R","S","T","U","V","W","X","Y","Z">>

LowerChars ==
  <<"a","b","c","d","e","f","g","h","i","j","k","l","m","n","o","p","q","r","s","t","u","v","w","x","y","z">>

\* String.prototype.toLowerCase on one character
ToLowerChar(c) ==
  IF \E i \in 1..Len(UpperChars) : UpperChars[i] = c
  THEN LowerChars[CHOOSE i \in 1..Len(UpperChars) : UpperChars[i] = c]
  ELSE c

ToLowerCase(s) == [i \in 1..Len(s) |-> ToLowerChar(s[i])]

\* the character class of the regular expression /[?.,!]/g
Punctuation == {"?", ".", ",", "!"}

\* StripPunctuation removing only the first match (the regular expression
\* without its g flag)
StripPunctuation_FirstOnly(s) ==
  IF \E i \in 1..Len(s) : s[i] \in Punctuation
  THEN LET first == CHOOSE i \in 1..Len(s) :
                      /\ s[i] \in Punctuation
                      /\ \A j \in 1..(i - 1) : s[j] \notin Punctuation
       IN SubSeq(s, 1, first - 1) \o SubSeq(s, first + 1, Len(s))
  ELSE s

\* s.replace(/[?.,!]/g, '')
StripPunctuation(s) == SelectSeq(s, LAMBDA c : c \notin Punctuation)

\* String.prototype.includes
Includes(s, k) ==
  \E i \in 0..(Len(s) - Len(k)) : SubSeq(s, i + 1, i + Len(k)) = k

\* String.prototype.substring(from, to), 0 <= from <= to
Substring(s, from, to) ==
  SubSeq(s, from + 1, IF to < Len(s) THEN to ELSE Len(s))

Ellipsis == <<".", ".", ".">>

(***************************************************************************)
(* Shortcut keywords and classification                                    *)
(***************************************************************************)
identityKeywords ==
  <<<<"w","h","o"," ","a","r","e"," ","y","o","u">>,
    <<"w","h","a","t"," ","a","r","e"," ","y","o","u">>,
    <<"w","h","o"," ","c","r","e","a","t","e","d"," ","y","o","u">>,
    <<"w","h","o"," ","m","a","d","e"," ","y","o","u">>,
    <<"w","h","o"," ","d","e","v","e","l","o","p","e","d"," ","y","o","u">>,
    <<"w","h","o"," ","i","s"," ","y","o","u","r"," ","d","e","v","e","l","o","p","e","r">>,
    <<"y","o","u","r"," ","c","r","e","a","t","o","r">>,
    <<"y","o","u","r"," ","d","e","v","e","l","o","p","e","r">>,
    <<"y","o","u","r"," ","n","a","m","e">>,
    <<"w","h","a","t"," ","i","s"," ","y","o","u","r"," ","n","a","m","e">>,
    <<"a","b","o","u","t"," ","y","o","u","r","s","e","l","f">>,
    <<"t","e","l","l"," ","m","e"," ","a","b","o","u","t"," ","y","o","u","r","s","e","l","f">>,
    <<"w","h","a","t"," ","m","o","d","e","l"," ","a","r","e"," ","y","o","u">>,
    <<"w","h","i","c","h"," ","m","o","d","e","l"," ","a","r","e"," ","y","o","u">>,
    <<"w","h","o"," ","t","r","a","i","n","e","d"," ","y","o","u">>,
    <<"w","h","e","r","e"," ","a","r","e"," ","y","o","u"," ","f","r","o","m">>>>

dateKeywords ==
  <<<<"d","a","t","e"," ","t","o","d","a","y">>,
    <<"t","o","d","a","y"," ","d","a","t","e">>,
    <<"w","h","a","t"," ","i","s"," ","t","h","e"," ","d","a","t","e"," ","t","o","d","a","y">>,
    <<"t","o","d","a","y","'","s"," ","d","a","t","e">>,
    <<"c","u","r","r","e","n","t"," ","d","a","t","e">>,
    <<"w","h","a","t"," ","i","s"," ","t","o","d","a","y","'","s"," ","d","a","t","e">>,
    <<"w","h","a","t"," ","d","a","y"," ","i","s"," ","i","t"," ","t","o","d","a","y">>>>

lowerCasePrompt(prompt) == StripPunctuation(ToLowerCase(prompt))

\* keywords.some(keyword => lowerCasePrompt.includes(keyword))
SomeKeyword(keywords, lowerCase) ==
  \E i \in 1..Len(keywords) : Includes(lowerCase, keywords[i])

\* the two if-branches of the chat handler, in the order the code tests them
Classify(prompt) ==
  LET lowerCase == lowerCasePrompt(prompt) IN
  IF SomeKeyword(identityKeywords, lowerCase) THEN "Identity"
  ELSE IF SomeKeyword(dateKeywords, lowerCase) THEN "DateQuery"
  ELSE "None"


(***************************************************************************)
(* Request inputs                                                          *)
(***************************************************************************)
\* "Who Are You?": Identity (12 characters)
pWho ==
  <<"W","h","o"," ","A","r","e"," ","Y","o","u","?">>

\* "What is the date today, please?": DateQuery, longer than 30 characters (31 characters)
pDate ==
  <<"W","h","a","t"," ","i","s"," ","t","h","e"," ","d","a","t","e"," ","t","o","d","a","y",","," ","p","l","e","a","s","e","?">>

\* "explain closures in javascript": no keyword, exactly 30 characters (30 characters)
pPlain30 ==
  <<"e","x","p","l","a","i","n"," ","c","l","o","s","u","r","e","s"," ","i","n"," ","j","a","v","a","s","c","r","i","p","t">>

\* "write a sort function in python": no keyword, 31 characters
pPlain31 ==
  <<"w","r","i","t","e"," ","a"," ","s","o","r","t"," ","f","u","n","c","t","i","o","n"," ","i","n"," ","p","y","t","h","o","n">>

\* creatorResponse of the Groq variant (abbreviated fixed text)
creatorResponseGroq ==
  <<"J","a","i",":","J","a","i","r","i","s","y","s">>

\* creatorResponse of the OpenRouter variant (abbreviated fixed text)
creatorResponseOpenRouter ==
  <<"J","a","i",":","L","o","h","i","t","h">>

\* `Today is ${mumbaiDate} (India/Mumbai time).` for the day of the run
dateResponse ==
  <<"T","o","d","a","y"," ","i","s">>

\* a text returned by the model provider
providerReply ==
  <<"o","k">>

Users == {"u1", "u2"}

\* the Authorization header: absent, a bearer token the verifier rejects,
\* or a bearer token the verifier decodes to the named uid
AuthHeaders == {"none", "bad"} \cup Users

Prompts == {<<>>, pWho, pDate, pPlain30, pPlain31}

\* conversationId absent from the request body (undefined, falsy)
NoId == 0

\* a conversationId that names no stored document ("does-not-exist")
MissingId == 99

\* the category of each prompt a request can carry
PromptCategory == [p \in Prompts |-> Classify(p)]

ConversationIdInputs == {NoId, 1, 2, MissingId}

Variants == {"groq", "openrouter"}

(***************************************************************************)
(* Bounds                                                                  *)
(***************************************************************************)
\* largest number of fragments a prompt under classification is made of
MaxFragments == 3

\* largest number of conversations already in the store at start-up
MaxSeed == 8

\* the requests served, any two of them possibly in flight together
Requests == {1, 2}

\* the first prompt of a conversation present at start-up: "q" and a digit
SeedPrompt(i) == <<"q", ToString(i)>>

(***************************************************************************)
(* Program constants                                                       *)
(***************************************************************************)
TitleLen == 30

MemoryLimit == 5

SnippetLen == 150

(***************************************************************************)
(* Documents and the conversation store                                    *)
(***************************************************************************)
Message(sender, content) == [sender |-> sender, content |-> content]

NoMessage == Message("", <<>>)

\* null / undefined where the code holds a document
NoDoc ==
  [id |-> NoId, userId |-> "", title |-> <<>>, messages |-> <<>>, updatedAt |-> 0]

\* DeriveTitle with the length test off by one (>= for >)
DeriveTitle_OffByOne(prompt) ==
  Substring(prompt, 0, TitleLen)
    \o (IF Len(prompt) >= TitleLen THEN Ellipsis ELSE <<>>)

\* prompt.substring(0, 30) + (prompt.length > 30 ? '...' : '')
DeriveTitle(prompt) ==
  Substring(prompt, 0, TitleLen)
    \o (IF Len(prompt) > TitleLen THEN Ellipsis ELSE <<>>)

\* new Conversation({ title, messages: [], userId }); the _id is generated
\* at construction
NewConversation(id, title, userId) ==
  [id |-> id, userId |-> userId, title |-> title, messages |-> <<>>,
   updatedAt |-> 0]

\* FindOne with the userId condition left out of the filter
FindOne_AnyOwner(st, id, userId) ==
  IF id \in DOMAIN st THEN st[id] ELSE NoDoc

\* Conversation.findOne({ _id: id, userId })
FindOne(st, id, userId) ==
  IF id \in DOMAIN st /\ st[id].userId = userId THEN st[id] ELSE NoDoc

\* the messages pushed on the in-memory document since it was loaded or
\* constructed: what mongoose tracks as the pending $push of the array
Pushed(q) ==
  SubSeq(q.conversation.messages, Len(q.loaded) + 1,
         Len(q.conversation.messages))

\* save() finds its document: a new document is inserted, a loaded one has
\* to be in the collection still (else save() throws DocumentNotFoundError)
SaveFinds(st, q) == ~q.resumed \/ q.conversation.id \in DOMAIN st

\* Save putting the pushed messages before the stored ones
Save_PushFirst(st, q, now) ==
  IF q.resumed
  THEN [i \in DOMAIN st |->
          IF i = q.conversation.id
          THEN [st[i] EXCEPT !.messages = Pushed(q) \o @, !.updatedAt = now]
          ELSE st[i]]
  ELSE [i \in DOMAIN st \cup {q.conversation.id} |->
          IF i = q.conversation.id
          THEN [q.conversation EXCEPT !.updatedAt = now] ELSE st[i]]

\* Save writing the whole in-memory document over the stored one
Save_WholeDocument(st, q, now) ==
  [i \in DOMAIN st \cup {q.conversation.id} |->
     IF i = q.conversation.id
     THEN [q.conversation EXCEPT !.updatedAt = now] ELSE st[i]]

\* conversation.save() with { timestamps: true }: a document made by
\* new Conversation(...) is inserted whole; for a document findOne returned,
\* only the modified paths are sent, here the pushed messages ($push) and
\* updatedAt ($set)
Save(st, q, now) ==
  IF q.resumed
  THEN [i \in DOMAIN st |->
          IF i = q.conversation.id
          THEN [st[i] EXCEPT !.messages = @ \o Pushed(q), !.updatedAt = now]
          ELSE st[i]]
  ELSE [i \in DOMAIN st \cup {q.conversation.id} |->
          IF i = q.conversation.id
          THEN [q.conversation EXCEPT !.updatedAt = now] ELSE st[i]]

\* Remove leaving the document in the collection (a find for a delete)
Remove_FindOnly(st, id) == st

\* the removal done by Conversation.findOneAndDelete
Remove(st, id) == [i \in DOMAIN st \ {id} |-> st[i]]

\* MemoryFilter without the userId condition
MemoryFilter_AnyUser(st, userId, currentConversationId) ==
  {i \in DOMAIN st : i # currentConversationId}

(***************************************************************************)
(* Cross-chat memory (Groq variant)                                        *)
(***************************************************************************)
\* MemoryFilter without the $ne condition on _id
MemoryFilter_NoExclusion(st, userId, currentConversationId) ==
  {i \in DOMAIN st : st[i].userId = userId}

\* the filter { userId, _id: { $ne: currentConversationId } }
MemoryFilter(st, userId, currentConversationId) ==
  {i \in DOMAIN st : st[i].userId = userId /\ i # currentConversationId}

RECURSIVE SortByUpdatedAt_Ascending(_, _)
\* the sort with the direction reversed: .sort({ updatedAt: 1 })
SortByUpdatedAt_Ascending(st, ids) ==
  IF ids = {} THEN <<>>
  ELSE LET oldest == CHOOSE i \in ids :
                       \A j \in ids : st[i].updatedAt <= st[j].updatedAt
       IN <<oldest>> \o SortByUpdatedAt_Ascending(st, ids \ {oldest})

RECURSIVE SortByUpdatedAtDesc(_, _)
\* .sort({ updatedAt: -1 })
SortByUpdatedAtDesc(st, ids) ==
  IF ids = {} THEN <<>>
  ELSE LET newest == CHOOSE i \in ids :
                       \A j \in ids : st[j].updatedAt <= st[i].updatedAt
       IN <<newest>> \o SortByUpdatedAtDesc(st, ids \ {newest})

\* .limit(n)
Limit(seq, n) == SubSeq(seq, 1, IF Len(seq) < n THEN Len(seq) ELSE n)

\* the documents of pastConversations, as their ids in result order
pastConversations(st, userId, currentConversationId) ==
  Limit(SortByUpdatedAtDesc(st, MemoryFilter(st, userId, currentConversationId)),
        MemoryLimit)

\* one line of historySummary
SummaryLine(conv) ==
  LET n == Len(conv.messages) IN
  IF n = 0
  THEN [topic |-> conv.title, hasLast |-> FALSE, sender |-> "", snippet |-> <<>>]
  ELSE [topic |-> conv.title, hasLast |-> TRUE,
        sender |-> conv.messages[n].sender,
        snippet |-> Substring(conv.messages[n].content, 0, SnippetLen)]

\* crossChatKnowledge before getUserLongTermMemory has returned
NoDigest == [kind |-> "unset", lines |-> <<>>]

\* "User has no previous conversation history."
NoHistory == [kind |-> "none", lines |-> <<>>]

\* "Error retrieving past history."
HistoryError == [kind |-> "error", lines |-> <<>>]

\* the value getUserLongTermMemory returns when the store read succeeds
getUserLongTermMemory(st, userId, currentConversationId) ==
  LET past == pastConversations(st, userId, currentConversationId) IN
  IF Len(past) = 0 THEN NoHistory
  ELSE [kind |-> "summary",
        lines |-> [i \in 1..Len(past) |-> SummaryLine(st[past[i]])]]

(***************************************************************************)
(* Start-up contents of the store                                          *)
(***************************************************************************)
SeedOwner(i) == IF i = 2 THEN "u2" ELSE "u1"

\* a conversation as one successful chat of its owner leaves it
SeedDoc(i) ==
  [NewConversation(i, DeriveTitle(SeedPrompt(i)), SeedOwner(i))
     EXCEPT !.messages = <<Message("user", SeedPrompt(i)),
                           Message("ai", providerReply)>>,
            !.updatedAt = i]

SeedStore(k) == [i \in 1..k |-> SeedDoc(i)]

SeedCounts == {0, MaxSeed}

(***************************************************************************)
(* State                                                                   *)
(***************************************************************************)
VARIABLES
  variant,   \* which of the two server programs of the file is running
  store,     \* the conversations collection: _id -> document
  nextId,    \* the next _id a new Conversation(...) gets
  clock,     \* the time of the last save, for updatedAt
  reqs,      \* per request: position, inputs, locals and response
  probe      \* a prompt taken through normalization and keyword matching
             \* on its own (ClassifierSpec); not used by the server runs

vars == <<variant, store, nextId, clock, reqs, probe>>

\* no prompt under classification
IdleProbe ==
  [stage |-> "idle", prompt |-> <<>>, lowerCasePrompt |-> <<>>,
   category |-> "", responseText |-> <<>>]

IdleRequest ==
  [pc |-> "idle", kind |-> "chat", auth |-> "none", user |-> "",
   prompt |-> <<>>, conversationId |-> NoId,
   conversation |-> NoDoc, resumed |-> FALSE, loaded |-> <<>>,
   historyForAI |-> <<>>, pastConversations |-> <<>>,
   crossChatKnowledge |-> NoDigest, responseText |-> <<>>,
   status |-> 0, aiMessage |-> NoMessage, newConversationId |-> NoId,
   body |-> NoDoc,
   storeReads |-> 0, storeWrites |-> 0, memoryReads |-> 0,
   personaBuilds |-> 0, providerCalls |-> 0, err |-> ""]

Init ==
  /\ variant \in Variants
  /\ \E k \in SeedCounts :
       /\ store = SeedStore(k)
       /\ nextId = k + 1
       /\ clock = k
  /\ reqs = [r \in Requests |-> IdleRequest]
  /\ probe = IdleProbe

(***************************************************************************)
(* Steps of a handler, as functions of the request record                  *)
(***************************************************************************)
\* res.status(s)... : the response is sent and the locals go out of scope
Respond(q, s) ==
  [q EXCEPT !.pc = "done", !.status = s, !.prompt = <<>>,
            !.conversation = NoDoc, !.resumed = FALSE, !.loaded = <<>>, !.historyForAI = <<>>,
            !.pastConversations = <<>>, !.crossChatKnowledge = NoDigest,
            !.responseText = <<>>]

\* res.json({ aiMessage, newConversationId: conversation._id })
RespondChat(q) ==
  [Respond(q, 200) EXCEPT
     !.aiMessage = q.conversation.messages[Len(q.conversation.messages)],
     !.newConversationId = q.conversation.id]

\* catch (err) { res.status(500)... }: err is the error that was thrown
Catch(q, e) == [Respond(q, 500) EXCEPT !.err = e]

\* a rejection nothing catches: the handler ends without sending a response
Reject(q, e) == [Respond(q, 0) EXCEPT !.pc = "rejected", !.err = e]

\* PushMessage putting the message first (unshift for push)
PushMessage_Unshift(q, m) ==
  [q EXCEPT !.conversation.messages = <<m>> \o @]

\* conversation.messages.push(m)
PushMessage(q, m) ==
  [q EXCEPT !.conversation.messages = Append(@, m)]

\* if (!conversation) { conversation = new Conversation({ title, ... }) }
CreateConversation(q, id) ==
  [q EXCEPT !.conversation = NewConversation(id, DeriveTitle(q.prompt), q.user),
            !.resumed = FALSE]

\* the role mapping of the Groq variant at load time (lines 429-432)
RoleOf(sender) == IF sender = "ai" THEN "assistant" ELSE "user"

\* LoadHistory keeping the stored sender as the role in both variants
LoadHistory_RawSender(v, messages) ==
  [i \in 1..Len(messages) |->
     [role |-> messages[i].sender, content |-> messages[i].content]]

\* historyForAI = conversation.messages.map(...) in the running variant
LoadHistory(v, messages) ==
  [i \in 1..Len(messages) |->
     [role |-> IF v = "groq" THEN RoleOf(messages[i].sender)
                             ELSE messages[i].sender,
      content |-> messages[i].content]]

\* the conversation the lookup returned becomes the one the request works on
ResumeConversation(q, doc) ==
  [q EXCEPT !.conversation = doc, !.resumed = TRUE, !.loaded = doc.messages]

\* ShortcutReply without the push of the user message
ShortcutReply_AiOnly(q) ==
  [PushMessage(q, Message("ai", q.responseText)) EXCEPT !.pc = "sc_save"]

\* conversation resolved on the shortcut path: push both messages, call save
ShortcutReply(q) ==
  [PushMessage(PushMessage(q, Message("user", q.prompt)),
               Message("ai", q.responseText))
     EXCEPT !.pc = "sc_save"]

\* build systemPrompt, push the user message, extend the transcript and
\* call the provider
CallProvider(q) ==
  [PushMessage(q, Message("user", q.prompt)) EXCEPT
     !.historyForAI = Append(@, [role |-> "user", content |-> q.prompt]),
     !.personaBuilds = @ + 1,
     !.providerCalls = @ + 1,
     !.pc = "provider"]

\* ModelReply calling the provider without the memory read
ModelReply_SkipMemory(v, q) == CallProvider(q)

\* conversation resolved on the model path: the Groq variant calls
\* getUserLongTermMemory next, the OpenRouter variant the provider
ModelReply(v, q) ==
  IF v = "groq" THEN [q EXCEPT !.pc = "memory"] ELSE CallProvider(q)

\* the system message followed by the transcript
messagesForAPI(v, q) ==
  <<[role |-> "system", digest |-> q.crossChatKnowledge]>>
    \o [i \in 1..Len(q.historyForAI) |->
          [role |-> IF v = "groq" THEN q.historyForAI[i].role
                    ELSE RoleOf(q.historyForAI[i].role),
           content |-> q.historyForAI[i].content]]

creatorResponse(v) ==
  IF v = "groq" THEN creatorResponseGroq ELSE creatorResponseOpenRouter

ShortcutText(v, category) ==
  IF category = "Identity" THEN creatorResponse(v) ELSE dateResponse

\* ChatStart without the test of the prompt
ChatStart_NoValidation(v, q, id) ==
  IF PromptCategory[q.prompt] # "None"
  THEN LET q1 == [q EXCEPT !.responseText =
                              ShortcutText(v, PromptCategory[q.prompt])]
       IN IF q.conversationId # NoId
          THEN [q1 EXCEPT !.pc = "sc_find"]
          ELSE ShortcutReply(CreateConversation(q1, id))
  ELSE IF q.conversationId # NoId
       THEN [q EXCEPT !.pc = "find"]
       ELSE ModelReply(v, CreateConversation(q, id))

\* ChatStart without the two shortcut branches
ChatStart_NoShortcut(v, q, id) ==
  IF q.prompt = <<>> THEN Respond(q, 400)
  ELSE IF q.conversationId # NoId
       THEN [q EXCEPT !.pc = "find"]
       ELSE ModelReply(v, CreateConversation(q, id))

\* the chat handler from its first line to its first await
ChatStart(v, q, id) ==
  IF q.prompt = <<>> THEN Respond(q, 400)
  ELSE IF PromptCategory[q.prompt] # "None"
  THEN LET q1 == [q EXCEPT !.responseText =
                              ShortcutText(v, PromptCategory[q.prompt])]
       IN IF q.conversationId # NoId
          THEN [q1 EXCEPT !.pc = "sc_find"]
          ELSE ShortcutReply(CreateConversation(q1, id))
  ELSE IF q.conversationId # NoId
       THEN [q EXCEPT !.pc = "find"]
       ELSE ModelReply(v, CreateConversation(q, id))

\* next() after a verified token: the route handler up to its first await
Dispatch(v, q, id) ==
  IF q.kind = "get" THEN [q EXCEPT !.pc = "get"]
  ELSE IF q.kind = "delete" THEN [q EXCEPT !.pc = "delete"]
  ELSE ChatStart(v, q, id)

\* the _id counter after a step that may have constructed a Conversation
IdAfter(q) == IF q.conversation.id = nextId THEN nextId + 1 ELSE nextId

(***************************************************************************)
(* Actions                                                                 *)
(***************************************************************************)
\* _id values are generated, not guessable: a client sends no id, one that
\* names nothing, or the id of a stored conversation that a response has
\* shown it, so not the id of a conversation that a request still in progress
\* created
KnownToClients(cid) ==
  \/ cid \in {NoId, MissingId}
  \/ /\ cid \in DOMAIN store
     /\ \A r \in Requests :
          reqs[r].conversation.id = cid => reqs[r].resumed

\* A request arrives; verifyFirebaseToken checks the Authorization header
Receive(r) ==
  /\ reqs[r].pc = "idle"
  /\ \E kind \in {"chat", "get", "delete"}, auth \in AuthHeaders :
       LET q == [reqs[r] EXCEPT !.kind = kind, !.auth = auth]
       IN reqs' = [reqs EXCEPT ![r] =
                     IF auth = "none" THEN Respond(q, 403)
                     ELSE [q EXCEPT !.pc = "verify"]]
  /\ UNCHANGED <<probe, variant, store, nextId, clock>>

\* admin.auth().verifyIdToken(idToken) throws
VerifyRejects(r) ==
  /\ reqs[r].pc = "verify"
  /\ reqs[r].auth = "bad"
  /\ reqs' = [reqs EXCEPT ![r] = Respond(@, 403)]
  /\ UNCHANGED <<probe, variant, store, nextId, clock>>

\* VerifyAccepts with next() called for a token the verifier rejected
VerifyAccepts_AnyToken(r) ==
  /\ reqs[r].pc = "verify"
  /\ \E prompt \in Prompts, cid \in ConversationIdInputs :
       /\ KnownToClients(cid)
       /\ reqs[r].kind # "chat" => prompt = <<>> /\ cid # NoId
       /\ LET q == Dispatch(variant,
                            [reqs[r] EXCEPT !.user = reqs[r].auth,
                                            !.prompt = prompt,
                                            !.conversationId = cid],
                            nextId)
          IN /\ reqs' = [reqs EXCEPT ![r] = q]
             /\ nextId' = IdAfter(q)
  /\ UNCHANGED <<probe, variant, store, clock>>

\* verifyIdToken returns the decoded token; next() runs the route handler,
\* which reads req.params.id or req.body
VerifyAccepts(r) ==
  /\ reqs[r].pc = "verify"
  /\ reqs[r].auth \in Users
  /\ \E prompt \in Prompts, cid \in ConversationIdInputs :
       /\ KnownToClients(cid)
       /\ reqs[r].kind # "chat" => prompt = <<>> /\ cid # NoId
       /\ LET q == Dispatch(variant,
                            [reqs[r] EXCEPT !.user = reqs[r].auth,
                                            !.prompt = prompt,
                                            !.conversationId = cid],
                            nextId)
          IN /\ reqs' = [reqs EXCEPT ![r] = q]
             /\ nextId' = IdAfter(q)
  /\ UNCHANGED <<probe, variant, store, clock>>

\* GET /api/conversations/:id, findOne returns
GetConversation(r) ==
  /\ reqs[r].pc = "get"
  /\ LET q == [reqs[r] EXCEPT !.storeReads = @ + 1]
         doc == FindOne(store, q.conversationId, q.user)
     IN reqs' = [reqs EXCEPT ![r] =
                   IF doc = NoDoc THEN Respond(q, 404)
                   ELSE [Respond(q, 200) EXCEPT !.body = doc]]
  /\ UNCHANGED <<probe, variant, store, nextId, clock>>

\* DELETE /api/conversations/:id, findOneAndDelete returns
DeleteConversation(r) ==
  /\ reqs[r].pc = "delete"
  /\ LET q == [reqs[r] EXCEPT !.storeReads = @ + 1]
         doc == FindOne(store, q.conversationId, q.user)
     IN IF doc = NoDoc
        THEN /\ reqs' = [reqs EXCEPT ![r] = Respond(q, 404)]
             /\ store' = store
        ELSE /\ reqs' = [reqs EXCEPT ![r] =
                           Respond([q EXCEPT !.storeWrites = @ + 1], 200)]
             /\ store' = Remove(store, doc.id)
  /\ UNCHANGED <<probe, variant, nextId, clock>>

\* the store call of a GET or DELETE throws: the handler's catch answers 500
ConversationRouteThrows(r) ==
  /\ reqs[r].pc \in {"get", "delete"}
  /\ reqs' = [reqs EXCEPT ![r] = Catch(@, "store")]
  /\ UNCHANGED <<probe, variant, store, nextId, clock>>

\* ChatFindOne answering 404 when the lookup finds nothing
ChatFindOne_NotFound(r) ==
  /\ reqs[r].pc = "find"
  /\ LET q == [reqs[r] EXCEPT !.storeReads = @ + 1]
         doc == FindOne(store, q.conversationId, q.user)
         q2 == IF doc = NoDoc
               THEN Respond(q, 404)
               ELSE ModelReply(variant,
                      [ResumeConversation(q, doc) EXCEPT
                         !.historyForAI = LoadHistory(variant, doc.messages)])
     IN /\ reqs' = [reqs EXCEPT ![r] = q2]
        /\ nextId' = IdAfter(q2)
  /\ UNCHANGED <<probe, variant, store, clock>>

\* model path: findOne({ _id: conversationId, userId }) returns
ChatFindOne(r) ==
  /\ reqs[r].pc = "find"
  /\ LET q == [reqs[r] EXCEPT !.storeReads = @ + 1]
         doc == FindOne(store, q.conversationId, q.user)
         q1 == IF doc = NoDoc
               THEN CreateConversation(q, nextId)
               ELSE [ResumeConversation(q, doc) EXCEPT
                       !.historyForAI = LoadHistory(variant, doc.messages)]
         q2 == ModelReply(variant, q1)
     IN /\ reqs' = [reqs EXCEPT ![r] = q2]
        /\ nextId' = IdAfter(q2)
  /\ UNCHANGED <<probe, variant, store, clock>>

\* Groq variant: the find of getUserLongTermMemory returns
MemoryRead(r) ==
  /\ reqs[r].pc = "memory"
  /\ LET q == reqs[r] IN
     reqs' = [reqs EXCEPT ![r] =
       CallProvider([q EXCEPT
         !.storeReads = @ + 1, !.memoryReads = @ + 1,
         !.pastConversations =
            pastConversations(store, q.user, q.conversationId),
         !.crossChatKnowledge =
            getUserLongTermMemory(store, q.user, q.conversationId)])]
  /\ UNCHANGED <<probe, variant, store, nextId, clock>>

\* MemoryReadThrows with the failure reaching the handler's catch
MemoryReadThrows_Aborts(r) ==
  /\ reqs[r].pc = "memory"
  /\ reqs' = [reqs EXCEPT ![r] =
       Catch([@ EXCEPT !.memoryReads = @ + 1], "store")]
  /\ UNCHANGED <<probe, variant, store, nextId, clock>>

\* Groq variant: the find of getUserLongTermMemory throws; its catch returns
\* the error text and the request goes on
MemoryReadThrows(r) ==
  /\ reqs[r].pc = "memory"
  /\ reqs' = [reqs EXCEPT ![r] =
       CallProvider([@ EXCEPT !.memoryReads = @ + 1,
                              !.crossChatKnowledge = HistoryError])]
  /\ UNCHANGED <<probe, variant, store, nextId, clock>>

\* ProviderReplies going on to the response without the save
ProviderReplies_RespondsUnsaved(r) ==
  /\ reqs[r].pc = "provider"
  /\ reqs' = [reqs EXCEPT ![r] =
       [PushMessage(@, Message("ai", providerReply)) EXCEPT !.pc = "saved"]]
  /\ UNCHANGED <<probe, variant, store, nextId, clock>>

\* ProviderReplies without the push of the ai message
ProviderReplies_NoPush(r) ==
  /\ reqs[r].pc = "provider"
  /\ reqs' = [reqs EXCEPT ![r].pc = "save"]
  /\ UNCHANGED <<probe, variant, store, nextId, clock>>

\* the provider returns a completion: push the ai message, call save
ProviderReplies(r) ==
  /\ reqs[r].pc = "provider"
  /\ reqs' = [reqs EXCEPT ![r] =
       [PushMessage(@, Message("ai", providerReply)) EXCEPT !.pc = "save"]]
  /\ UNCHANGED <<probe, variant, store, nextId, clock>>

\* ProviderFails with the user turn saved before the failure is reported
ProviderFails_PersistsUserTurn(r) ==
  /\ reqs[r].pc = "provider"
  /\ store' = Save(store, reqs[r], clock + 1)
  /\ clock' = clock + 1
  /\ reqs' = [reqs EXCEPT ![r] =
                Catch([@ EXCEPT !.storeWrites = @ + 1], "provider")]
  /\ UNCHANGED <<probe, variant, nextId>>

\* the provider call throws or answers with a non-success status
ProviderFails(r) ==
  /\ reqs[r].pc = "provider"
  /\ reqs' = [reqs EXCEPT ![r] = Catch(@, "provider")]
  /\ UNCHANGED <<probe, variant, store, nextId, clock>>

\* model path: the write of conversation.save() is applied by the store; the
\* handler is still suspended at the await
ChatSave(r) ==
  /\ reqs[r].pc = "save"
  /\ SaveFinds(store, reqs[r])
  /\ store' = Save(store, reqs[r], clock + 1)
  /\ clock' = clock + 1
  /\ reqs' = [reqs EXCEPT ![r] =
                [@ EXCEPT !.storeWrites = @ + 1, !.pc = "saved"]]
  /\ UNCHANGED <<probe, variant, nextId>>

\* model path: await conversation.save() returns, the success response is
\* sent
ChatSaveReturns(r) ==
  /\ reqs[r].pc = "saved"
  /\ reqs' = [reqs EXCEPT ![r] = RespondChat(@)]
  /\ UNCHANGED <<probe, variant, store, nextId, clock>>

\* model path: findOne or save throws inside the try block
ChatStoreThrows(r) ==
  /\ reqs[r].pc \in {"find", "save"}
  /\ reqs' = [reqs EXCEPT ![r] = Catch(@, "store")]
  /\ UNCHANGED <<probe, variant, store, nextId, clock>>

\* shortcut path: findOne returns
ShortcutFindOne(r) ==
  /\ reqs[r].pc = "sc_find"
  /\ LET q == [reqs[r] EXCEPT !.storeReads = @ + 1]
         doc == FindOne(store, q.conversationId, q.user)
         q1 == ShortcutReply(IF doc = NoDoc
                             THEN CreateConversation(q, nextId)
                             ELSE ResumeConversation(q, doc))
     IN /\ reqs' = [reqs EXCEPT ![r] = q1]
        /\ nextId' = IdAfter(q1)
  /\ UNCHANGED <<probe, variant, store, clock>>

\* shortcut path: the write of conversation.save() is applied by the store;
\* handleShortcutResponse is still suspended at the await
ShortcutSave(r) ==
  /\ reqs[r].pc = "sc_save"
  /\ SaveFinds(store, reqs[r])
  /\ store' = Save(store, reqs[r], clock + 1)
  /\ clock' = clock + 1
  /\ reqs' = [reqs EXCEPT ![r] =
                [@ EXCEPT !.storeWrites = @ + 1, !.pc = "sc_saved"]]
  /\ UNCHANGED <<probe, variant, nextId>>

\* shortcut path: await conversation.save() returns, the success response is
\* sent
ShortcutSaveReturns(r) ==
  /\ reqs[r].pc = "sc_saved"
  /\ reqs' = [reqs EXCEPT ![r] = RespondChat(@)]
  /\ UNCHANGED <<probe, variant, store, nextId, clock>>

\* shortcut path: findOne or save throws; the shortcut code runs outside the
\* handler's try block, so the rejection is not caught
ShortcutStoreThrows(r) ==
  /\ reqs[r].pc \in {"sc_find", "sc_save"}
  /\ reqs' = [reqs EXCEPT ![r] = Reject(@, "store")]
  /\ UNCHANGED <<probe, variant, store, nextId, clock>>

Next ==
  \E r \in Requests :
    \/ Receive(r)
    \/ VerifyRejects(r)
    \/ VerifyAccepts(r)
    \/ GetConversation(r)
    \/ DeleteConversation(r)
    \/ ConversationRouteThrows(r)
    \/ ChatFindOne(r)
    \/ MemoryRead(r)
    \/ MemoryReadThrows(r)
    \/ ProviderReplies(r)
    \/ ProviderFails(r)
    \/ ChatSave(r)
    \/ ChatSaveReturns(r)
    \/ ChatStoreThrows(r)
    \/ ShortcutFindOne(r)
    \/ ShortcutSave(r)
    \/ ShortcutSaveReturns(r)
    \/ ShortcutStoreThrows(r)

Spec == Init /\ [][Next]_vars

(***************************************************************************)
(* Classification of a prompt on its own: lines 405-420 (122-160 in the    *)
(* OpenRouter variant) applied to prompts put together from fragments that *)
(* mix letter case, the four stripped characters and keyword parts         *)
(***************************************************************************)
\* "Who", "who?", " Are You", " are you", "date", "DATE,", " today",
\* " To.day", "your Name", "!", "x", " "
Fragments ==
  {<<"W","h","o">>,
   <<"w","h","o","?">>,
   <<" ","A","r","e"," ","Y","o","u">>,
   <<" ","a","r","e"," ","y","o","u">>,
   <<"d","a","t","e">>,
   <<"D","A","T","E",",">>,
   <<" ","t","o","d","a","y">>,
   <<" ","T","o",".","d","a","y">>,
   <<"y","o","u","r"," ","N","a","m","e">>,
   <<"!">>,
   <<"x">>,
   <<" ">>}

RECURSIVE PromptsOf(_)
\* the prompts made of exactly n fragments
PromptsOf(n) ==
  IF n = 0 THEN {<<>>}
  ELSE {p \o f : p \in PromptsOf(n - 1), f \in Fragments}

BoundedPrompts == UNION {PromptsOf(n) : n \in 1..MaxFragments}

ClassifierInit ==
  /\ variant \in Variants
  /\ store = SeedStore(0)
  /\ nextId = 1
  /\ clock = 0
  /\ reqs = [r \in Requests |-> IdleRequest]
  /\ \E p \in BoundedPrompts :
       probe = [IdleProbe EXCEPT !.stage = "read", !.prompt = p]

\* const lowerCasePrompt = prompt.toLowerCase().replace(/[?.,!]/g, '')
Normalize ==
  /\ probe.stage = "read"
  /\ probe' = [probe EXCEPT !.stage = "normalized",
                            !.lowerCasePrompt = lowerCasePrompt(probe.prompt)]
  /\ UNCHANGED <<variant, store, nextId, clock, reqs>>

\* if (identityKeywords.some(...)): the creator text is the reply
IdentityBranch ==
  /\ probe.stage = "normalized"
  /\ SomeKeyword(identityKeywords, probe.lowerCasePrompt)
  /\ probe' = [probe EXCEPT !.stage = "classified", !.category = "Identity",
                            !.responseText = ShortcutText(variant, "Identity")]
  /\ UNCHANGED <<variant, store, nextId, clock, reqs>>

\* DateBranch tested without regard to the identity test
DateBranch_First ==
  /\ probe.stage = "normalized"
  /\ SomeKeyword(dateKeywords, probe.lowerCasePrompt)
  /\ probe' = [probe EXCEPT !.stage = "classified", !.category = "DateQuery",
                            !.responseText = ShortcutText(variant, "DateQuery")]
  /\ UNCHANGED <<variant, store, nextId, clock, reqs>>

\* the first test failed; if (dateKeywords.some(...)): the date text is the
\* reply
DateBranch ==
  /\ probe.stage = "normalized"
  /\ ~SomeKeyword(identityKeywords, probe.lowerCasePrompt)
  /\ SomeKeyword(dateKeywords, probe.lowerCasePrompt)
  /\ probe' = [probe EXCEPT !.stage = "classified", !.category = "DateQuery",
                            !.responseText = ShortcutText(variant, "DateQuery")]
  /\ UNCHANGED <<variant, store, nextId, clock, reqs>>

\* both tests failed: the prompt goes to the model
NoShortcut ==
  /\ probe.stage = "normalized"
  /\ ~SomeKeyword(identityKeywords, probe.lowerCasePrompt)
  /\ ~SomeKeyword(dateKeywords, probe.lowerCasePrompt)
  /\ probe' = [probe EXCEPT !.stage = "classified", !.category = "None"]
  /\ UNCHANGED <<variant, store, nextId, clock, reqs>>

ClassifierNext ==
  \/ Normalize
  \/ IdentityBranch
  \/ DateBranch
  \/ NoShortcut

ClassifierSpec == ClassifierInit /\ [][ClassifierNext]_vars

(***************************************************************************)
(* Properties                                                              *)
(***************************************************************************)
\* the step is taken by request r
StepOf(r) == reqs'[r] # reqs[r]

\* the step in which the store applies the save of chat request r
ChatPersists(r) ==
  /\ reqs[r].kind = "chat"
  /\ reqs[r].pc \in {"save", "sc_save"}
  /\ reqs'[r].pc \in {"saved", "sc_saved"}

\* the step in which chat request r sends its success response
ChatSucceeds(r) ==
  /\ reqs[r].kind = "chat"
  /\ reqs[r].pc \in {"saved", "sc_saved"}
  /\ reqs'[r].status = 200

\* the ai message request q has pushed last on its document
LastMessage(q) == q.conversation.messages[Len(q.conversation.messages)]

\* the step in which the conversation of chat request r is resolved
ConversationResolved(r) ==
  /\ reqs'[r].kind = "chat"
  /\ reqs[r].conversation = NoDoc
  /\ reqs'[r].conversation # NoDoc

\* the step in which the memory read of request r returns its documents
MemoryReturned(r) ==
  /\ reqs[r].pc = "memory"
  /\ reqs'[r].pc = "provider"
  /\ reqs'[r].crossChatKnowledge.kind # "error"

IsShortcutPrompt(p) == PromptCategory[p] # "None"

\* C1 as stated: a chat request that returns success has stored the messages
\* it loaded (none for a new conversation) followed by exactly two messages,
\* the user prompt and then the ai reply it returns, so the stored count is
\* the count the request loaded plus 2.
C1_TwoMessagesSinceLoad ==
  [][\A r \in Requests : ChatPersists(r) =>
       LET id == reqs[r].conversation.id IN
       /\ id \in DOMAIN store'
       /\ store'[id].messages =
            reqs[r].loaded \o <<Message("user", reqs[r].prompt),
                                LastMessage(reqs[r])>>
       /\ Len(store'[id].messages) = Len(reqs[r].loaded) + 2]_vars

\* C1: a chat request that returns success, on the shortcut or the model
\* path, has appended exactly two messages to what the store held for the
\* conversation just before the persist (nothing for a new conversation): the
\* user prompt and then the ai reply it returns, so the stored count grows by
\* exactly 2 with the call.
C1_TwoMessagesAppended ==
  [][\A r \in Requests :
       /\ ChatPersists(r) =>
            LET id == reqs[r].conversation.id
                before == IF reqs[r].resumed THEN store[id].messages ELSE <<>>
            IN
            /\ id \in DOMAIN store'
            /\ reqs[r].resumed => id \in DOMAIN store
            /\ ~reqs[r].resumed => id \notin DOMAIN store
            /\ store'[id].messages =
                 before \o <<Message("user", reqs[r].prompt),
                             LastMessage(reqs[r])>>
            /\ LastMessage(reqs[r]).sender = "ai"
            /\ Len(store'[id].messages) = Len(before) + 2
       /\ ChatSucceeds(r) =>
            /\ reqs[r].storeWrites = 1
            /\ reqs'[r].aiMessage = LastMessage(reqs[r])
            /\ reqs'[r].newConversationId = reqs[r].conversation.id
            /\ store' = store
       /\ (reqs'[r].kind = "chat" /\ reqs'[r].status = 200 /\ StepOf(r)) =>
            ChatSucceeds(r)]_vars

\* C1 witness: a successful chat resumed a two-message conversation, which
\* now holds four messages ending with a user message and the returned reply
C1_Witness ==
  \E r \in Requests :
    /\ reqs[r].pc = "done" /\ reqs[r].kind = "chat" /\ reqs[r].status = 200
    /\ reqs[r].newConversationId = reqs[r].conversationId
    /\ reqs[r].newConversationId \in DOMAIN store
    /\ LET m == store[reqs[r].newConversationId].messages IN
       /\ Len(m) = 4
       /\ m[3].sender = "user"
       /\ m[4] = reqs[r].aiMessage

\* C2: a step of a request never changes or removes a conversation owned by
\* a user other than the caller, which stays retrievable by its owner; a GET
\* or DELETE whose lookup returns answers 404 when the id names a
\* conversation of another user.
C2_OwnershipIsolation ==
  [][\A r \in Requests : StepOf(r) =>
       /\ \A i \in DOMAIN store :
            store[i].userId # reqs'[r].user =>
              /\ i \in DOMAIN store'
              /\ store'[i] = store[i]
              /\ FindOne(store', i, store[i].userId) = store[i]
       /\ ( /\ GetConversation(r) \/ DeleteConversation(r)
            /\ reqs[r].conversationId \in DOMAIN store
            /\ store[reqs[r].conversationId].userId # reqs[r].user )
          => reqs'[r].status = 404 /\ reqs'[r].body = NoDoc]_vars

\* C2 witness: a DELETE of another user's conversation was answered 404 and
\* a chat that supplied another user's conversation id succeeded, and both
\* conversations are still stored for their owners
C2_Witness ==
  \E r1, r2 \in Requests :
    /\ reqs[r1].pc = "done" /\ reqs[r1].kind = "delete" /\ reqs[r1].status = 404
    /\ reqs[r1].conversationId \in DOMAIN store
    /\ store[reqs[r1].conversationId].userId # reqs[r1].user
    /\ reqs[r2].pc = "done" /\ reqs[r2].kind = "chat" /\ reqs[r2].status = 200
    /\ reqs[r2].conversationId \in DOMAIN store
    /\ store[reqs[r2].conversationId].userId # reqs[r2].user
    /\ store[reqs[r2].conversationId] = SeedDoc(reqs[r2].conversationId)

IsTitleOf(title, p) ==
  IF Len(p) <= 30 THEN title = p
  ELSE /\ Len(title) = 33
       /\ SubSeq(title, 1, 30) = SubSeq(p, 1, 30)
       /\ SubSeq(title, 31, 33) = <<".", ".", ".">>

\* C4: a conversation that enters the store has as title the first 30
\* characters of its creating prompt (its first message), followed by "..."
\* exactly when that prompt is longer than 30 characters, and no step changes
\* the title of a stored conversation.
C4_TitleFixedAtCreation ==
  [][\A id \in DOMAIN store' :
       IF id \in DOMAIN store
       THEN store'[id].title = store[id].title
       ELSE /\ store'[id].messages[1].sender = "user"
            /\ IsTitleOf(store'[id].title, store'[id].messages[1].content)
            /\ \A r \in Requests :
                 StepOf(r) /\ ~reqs[r].resumed =>
                   IsTitleOf(store'[id].title, reqs[r].prompt)]_vars

\* C4 witness: a conversation created by a prompt longer than 30 characters
\* was resumed with a different prompt and still has the truncated title
C4_Witness ==
  \E id \in DOMAIN store :
    /\ Len(store[id].messages) = 4
    /\ Len(store[id].messages[1].content) > 30
    /\ store[id].messages[3].content # store[id].messages[1].content
    /\ Len(store[id].title) = 33

\* C5: a chat request whose prompt classifies as Identity or DateQuery never
\* reads the memory digest, builds the persona instruction or calls the
\* provider, and on success the fixed shortcut text is the ai message that is
\* stored and returned.
C5_ShortcutSkipsModel ==
  [][\A r \in Requests :
       /\ ( /\ reqs'[r].kind = "chat"
            /\ IsShortcutPrompt(reqs[r].prompt)
                 \/ IsShortcutPrompt(reqs'[r].prompt) )
          => /\ reqs'[r].memoryReads = 0
             /\ reqs'[r].personaBuilds = 0
             /\ reqs'[r].providerCalls = 0
             /\ reqs'[r].pc \notin {"find", "memory", "provider", "save", "saved"}
       /\ ChatPersists(r) /\ IsShortcutPrompt(reqs[r].prompt) =>
            LET text == IF PromptCategory[reqs[r].prompt] = "Identity"
                        THEN creatorResponse(variant) ELSE dateResponse
                m == store'[reqs[r].conversation.id].messages
            IN m[Len(m)] = Message("ai", text)
       /\ ChatSucceeds(r) /\ IsShortcutPrompt(reqs[r].prompt) =>
            reqs'[r].aiMessage =
              Message("ai", IF PromptCategory[reqs[r].prompt] = "Identity"
                            THEN creatorResponse(variant)
                            ELSE dateResponse)]_vars

\* C5 witness: an identity chat and a date chat have succeeded without a
\* memory read or provider call, each storing its fixed text
C5_Witness ==
  \E r1, r2 \in Requests :
    /\ reqs[r1].aiMessage.content = creatorResponse(variant)
    /\ reqs[r2].aiMessage.content = dateResponse
    /\ \A r \in {r1, r2} :
         /\ reqs[r].pc = "done" /\ reqs[r].status = 200
         /\ reqs[r].memoryReads = 0 /\ reqs[r].providerCalls = 0
         /\ reqs[r].newConversationId \in DOMAIN store
         /\ LET m == store[reqs[r].newConversationId].messages
            IN m[Len(m)] = reqs[r].aiMessage

\* C6: no request calls the provider twice; the step in which the provider
\* call fails answers 500, ends the request, and leaves the store as it is,
\* the request having written nothing: a conversation it created is not in
\* the store.
C6_ProviderFailureLosesTurn ==
  [][\A r \in Requests :
       /\ reqs'[r].providerCalls <= 1
       /\ (StepOf(r) /\ reqs[r].pc = "provider" /\ reqs'[r].pc # "save") =>
            /\ reqs'[r].pc = "done"
            /\ reqs'[r].status = 500
            /\ reqs'[r].providerCalls = 1
            /\ reqs'[r].storeWrites = 0
            /\ store' = store
            /\ ~reqs[r].resumed =>
                 reqs[r].conversation.id \notin DOMAIN store']_vars

\* C6 witness: a chat for a new conversation ended in 500 after its one
\* provider call failed, and the store is still empty
C6_Witness ==
  \E r \in Requests :
    /\ reqs[r].pc = "done" /\ reqs[r].err = "provider"
    /\ reqs[r].status = 500 /\ reqs[r].providerCalls = 1
    /\ reqs[r].conversationId = NoId
    /\ DOMAIN store = {}

\* C7: every authenticated chat request whose handler has ended has sent
\* one response, which is the success shape, a 400 or a 500.
C7_ChatAlwaysAnswered ==
  \A r \in Requests :
    (reqs[r].kind = "chat" /\ reqs[r].user \in Users
       /\ reqs[r].pc \in {"done", "rejected"})
      => reqs[r].status \in {200, 400, 500}

\* C8: when the memory read of a model-path chat returns, the digest has at
\* most 5 summaries, one per fetched conversation, none of them the
\* conversation the request works on, and it is the "no history" text when
\* the caller owns no other conversation.
C8_DigestBounded ==
  [][\A r \in Requests : MemoryReturned(r) =>
       LET q == reqs'[r]
           past == q.pastConversations
           others == {i \in DOMAIN store :
                        store[i].userId = q.user /\ i # q.conversation.id}
       IN /\ Len(past) <= 5
          /\ Len(q.crossChatKnowledge.lines) = Len(past)
          /\ \A i \in 1..Len(past) :
               /\ past[i] # q.conversation.id
               /\ past[i] \in others
          /\ \A i, j \in 1..Len(past) : i # j => past[i] # past[j]
          /\ others = {} => q.crossChatKnowledge = NoHistory
          /\ q.crossChatKnowledge = NoHistory <=> Len(past) = 0]_vars

\* C8 witness: a chat resumed a conversation of a user who owns more than 5
\* others, and its digest lists 5 conversations
C8_Witness ==
  \E r \in Requests :
    /\ reqs[r].pc = "provider" /\ reqs[r].resumed
    /\ Len(reqs[r].pastConversations) = 5
    /\ reqs[r].crossChatKnowledge.kind = "summary"
    /\ Cardinality({i \in DOMAIN store :
                      /\ store[i].userId = reqs[r].user
                      /\ i # reqs[r].conversation.id}) > 5

\* C9: a save makes the saved conversation the most recently updated one,
\* and the digest lists the fetched conversations most recently updated
\* first, each line being the summary of the conversation at that position,
\* with no omitted conversation more recent than a listed one.
C9_DigestMostRecentFirst ==
  [][\A r \in Requests :
       /\ (ChatPersists(r) =>
             \A i \in DOMAIN store' \ {reqs[r].conversation.id} :
               store'[i].updatedAt
                 < store'[reqs[r].conversation.id].updatedAt)
       /\ (MemoryReturned(r) =>
             LET q == reqs'[r]
                 past == q.pastConversations
             IN /\ \A i, j \in 1..Len(past) :
                     i < j => store[past[i]].updatedAt > store[past[j]].updatedAt
                /\ \A i \in 1..Len(past) :
                     q.crossChatKnowledge.lines[i].topic = store[past[i]].title
                /\ \A k \in DOMAIN store, i \in 1..Len(past) :
                     ( /\ store[k].userId = q.user
                       /\ k # q.conversationId
                       /\ \A j \in 1..Len(past) : past[j] # k )
                     => store[k].updatedAt < store[past[i]].updatedAt)]_vars

\* C9 witness: the digest of a chat lists first a conversation that was
\* created before the second one listed but has been updated by a chat since
C9_Witness ==
  \E r \in Requests :
    /\ reqs[r].pc = "provider"
    /\ Len(reqs[r].pastConversations) >= 2
    /\ reqs[r].pastConversations[1] < reqs[r].pastConversations[2]
    /\ reqs[r].pastConversations[1] \in DOMAIN store
    /\ Len(store[reqs[r].pastConversations[1]].messages) = 4

\* C10: a request without a bearer credential or with one the verifier
\* rejects is answered 403 without a user, a store read, a store write or a
\* provider call, and none of its steps changes the store.
C10_UnauthenticatedNeverServed ==
  [][\A r \in Requests :
       (reqs'[r].pc # "idle" /\ reqs'[r].auth \in {"none", "bad"}) =>
         /\ reqs'[r].pc \in {"verify", "done"}
         /\ reqs'[r].pc = "done" => reqs'[r].status = 403
         /\ reqs'[r].auth = "none" => reqs'[r].pc = "done"
         /\ reqs'[r].user = ""
         /\ reqs'[r].storeReads = 0
         /\ reqs'[r].storeWrites = 0
         /\ reqs'[r].memoryReads = 0
         /\ reqs'[r].providerCalls = 0
         /\ StepOf(r) => store' = store /\ nextId' = nextId]_vars

\* C10 witness: a request without a credential and one with a rejected token
\* have both been answered 403
C10_Witness ==
  \E r1, r2 \in Requests :
    /\ reqs[r1].auth = "none" /\ reqs[r2].auth = "bad"
    /\ \A r \in {r1, r2} :
         /\ reqs[r].pc = "done"
         /\ reqs[r].status = 403
         /\ reqs[r].storeReads = 0

\* the step in which the chat handler of request r reads a body whose prompt
\* is empty or absent
EmptyPromptRead(r) ==
  /\ reqs[r].pc = "verify"
  /\ reqs[r].kind = "chat"
  /\ reqs'[r].user \in Users
  /\ reqs'[r].prompt = <<>>

\* C11: a chat request whose prompt is empty or absent is answered 400 in
\* the step that reads it, without a lookup, a new conversation, a save or a
\* provider call, and the store is unchanged; only such a request gets 400.
C11_MissingPromptNoPersistence ==
  [][\A r \in Requests :
       /\ EmptyPromptRead(r) =>
            /\ reqs'[r].pc = "done"
            /\ reqs'[r].status = 400
            /\ reqs'[r].storeReads = 0
            /\ reqs'[r].storeWrites = 0
            /\ reqs'[r].memoryReads = 0
            /\ reqs'[r].providerCalls = 0
            /\ reqs'[r].newConversationId = NoId
            /\ store' = store
            /\ nextId' = nextId
       /\ (StepOf(r) /\ reqs'[r].status = 400) => EmptyPromptRead(r)]_vars

\* C11 witness: a chat without a prompt that named a stored conversation of
\* the caller was answered 400 without reading the store
C11_Witness ==
  \E r \in Requests :
    /\ reqs[r].pc = "done" /\ reqs[r].kind = "chat"
    /\ reqs[r].status = 400
    /\ reqs[r].storeReads = 0 /\ reqs[r].providerCalls = 0
    /\ reqs[r].conversationId \in DOMAIN store
    /\ store[reqs[r].conversationId].userId = reqs[r].user

\* C12: the category of a prompt is the category of the prompt lower-cased
\* with the characters ? . , ! removed.
C12_ClassificationInsensitive ==
  probe.stage = "classified" =>
    LET plain == SelectSeq(ToLowerCase(probe.prompt),
                           LAMBDA c : c \notin {"?", ".", ",", "!"})
    IN /\ probe.category = Classify(plain)
       /\ Classify(probe.prompt) = Classify(plain)

\* C12 witness: a prompt with a capital letter and two of the stripped
\* characters has been classified as a shortcut
C12_Witness ==
  /\ probe.stage = "classified"
  /\ probe.category \in {"Identity", "DateQuery"}
  /\ \E i \in 1..Len(probe.prompt) : probe.prompt[i] # ToLowerChar(probe.prompt[i])
  /\ Cardinality({i \in 1..Len(probe.prompt) :
                    probe.prompt[i] \in {"?", ".", ",", "!"}}) >= 2

\* C13: every stored conversation holds a non-empty sequence of messages
\* made of (user, ai) pairs: a user message at each odd position, an ai
\* message at each even one, and the last position is even.
C13_StoredPairs ==
  \A i \in DOMAIN store :
    LET m == store[i].messages IN
    /\ Len(m) > 0
    /\ Len(m) % 2 = 0
    /\ \A k \in 1..Len(m) :
         m[k].sender = IF k % 2 = 1 THEN "user" ELSE "ai"

\* C13 witness: one request has failed after its provider call or on a store
\* call, another has resumed a conversation, which holds two pairs
C13_Witness ==
  /\ \E r \in Requests : reqs[r].err # "" /\ reqs[r].kind = "chat"
  /\ \E i \in DOMAIN store : Len(store[i].messages) = 4

\* s is a prefix of t
IsPrefix(s, t) == Len(s) <= Len(t) /\ SubSeq(t, 1, Len(s)) = s

\* C14: in every step, the messages of a conversation that stays in the
\* store are a prefix of its messages after the step: nothing stored is
\* removed, replaced or reordered, whatever the interleaving of requests.
C14_AppendOnly ==
  [][\A i \in DOMAIN store \cap DOMAIN store' :
       IsPrefix(store[i].messages, store'[i].messages)]_vars

\* C14 witness: two chats loaded the same one-pair conversation before either
\* saved; one has saved its pair and the other is about to save
C14_Witness ==
  \E i \in DOMAIN store, r \in Requests :
    /\ reqs[r].pc \in {"save", "sc_save"}
    /\ reqs[r].resumed /\ reqs[r].conversation.id = i
    /\ Len(reqs[r].loaded) = 2
    /\ Len(store[i].messages) = 4
    /\ IsPrefix(reqs[r].loaded, store[i].messages)

\* the save of chat request q to conversation i has been applied
HasPersistedTo(q, i) ==
  /\ q.kind = "chat"
  /\ \/ q.pc \in {"saved", "sc_saved"} /\ q.conversation.id = i
     \/ q.pc = "done" /\ q.status = 200 /\ q.newConversationId = i

\* the ai message of a chat request whose save has been applied
PersistedReply(q) ==
  IF q.pc = "done" THEN q.aiMessage ELSE LastMessage(q)

\* request r is about to save conversation i, which it loaded before the
\* save of request r2 to it was applied: both loaded the same messages
LoadedBeforeOtherSave(r, r2, i) ==
  /\ r # r2
  /\ reqs[r].kind = "chat" /\ reqs[r].pc \in {"save", "sc_save"}
  /\ reqs[r].resumed /\ reqs[r].conversation.id = i
  /\ HasPersistedTo(reqs[r2], i)
  /\ i \in DOMAIN store
  /\ Len(store[i].messages) = Len(reqs[r].loaded) + 2
  /\ IsPrefix(reqs[r].loaded, store[i].messages)
  /\ store[i].messages[Len(store[i].messages)] = PersistedReply(reqs[r2])

\* C15 as stated: when two chat requests have loaded the same conversation
\* before either saved, the second save is also applied and leaves the
\* conversation with the loaded messages followed by the second request's
\* pair only: the stored count does not grow and the first pair is gone.
C15_LastWriteWins ==
  [][\A r, r2 \in Requests, i \in DOMAIN store :
       (LoadedBeforeOtherSave(r, r2, i) /\ StepOf(r) /\ reqs'[r].err = "") =>
         /\ ChatPersists(r)
         /\ store'[i].messages =
              reqs[r].loaded \o <<Message("user", reqs[r].prompt),
                                  LastMessage(reqs[r])>>
         /\ Len(store'[i].messages) = Len(store[i].messages)]_vars

\* C15 amended: when two chat requests have loaded the same conversation
\* before either saved, the second save is also applied and appends its pair
\* after the pair of the first: the conversation holds the loaded messages,
\* then the first saved pair, then the second, four messages more than
\* either request loaded; and a request whose save was applied is answered
\* 200 with the reply it saved.
C15_BothPairsKept ==
  [][/\ \A r, r2 \in Requests, i \in DOMAIN store :
          (LoadedBeforeOtherSave(r, r2, i) /\ StepOf(r)
             /\ reqs'[r].err = "") =>
            /\ ChatPersists(r)
            /\ i \in DOMAIN store'
            /\ store'[i].messages =
                 store[i].messages \o <<Message("user", reqs[r].prompt),
                                        LastMessage(reqs[r])>>
            /\ Len(store'[i].messages) = Len(reqs[r].loaded) + 4
            /\ store'[i].messages[Len(reqs[r].loaded) + 2] =
                 PersistedReply(reqs[r2])
     /\ \A r \in Requests :
          (reqs[r].pc \in {"saved", "sc_saved"} /\ StepOf(r)) =>
            /\ reqs'[r].pc = "done" /\ reqs'[r].status = 200
            /\ reqs'[r].aiMessage = LastMessage(reqs[r])
            /\ reqs'[r].newConversationId = reqs[r].conversation.id]_vars

\* C15 witness: the saves of both requests to a one-pair conversation have
\* been applied, the second by a request that had loaded the conversation
\* with that one pair only, and the conversation holds three pairs
C15_Witness ==
  \E r, r2 \in Requests, i \in DOMAIN store :
    /\ r # r2
    /\ reqs[r].pc \in {"saved", "sc_saved"}
    /\ reqs[r].resumed /\ reqs[r].conversation.id = i
    /\ Len(reqs[r].loaded) = 2
    /\ HasPersistedTo(reqs[r2], i)
    /\ Len(store[i].messages) = 6
    /\ store[i].messages[4] = PersistedReply(reqs[r2])
    /\ store[i].messages[6] = LastMessage(reqs[r])
    /\ store[i].messages[3] # store[i].messages[5]

\* C16: on the model path a request goes from the conversation lookup to the
\* memory read (Groq variant, the only one with a digest), to the persona and
\* the provider call made with that digest, to the save, to the response;
\* it calls the provider exactly once, never before the digest is set, and
\* the store is unchanged by the request until the provider has replied.
C16_FixedOrder ==
  [][\A r \in Requests :
       (reqs[r].kind = "chat" /\ StepOf(r)) =>
         LET q == reqs[r]
             q1 == reqs'[r] IN
         /\ q1.providerCalls <= 1 /\ q1.storeWrites <= 1
         /\ q1.memoryReads <= 1 /\ q1.personaBuilds = q1.providerCalls
         /\ q.pc = "find" =>
              /\ q1.pc \in {IF variant = "groq" THEN "memory" ELSE "provider",
                            "done"}
              /\ q1.pc = "done" => q1.status = 500
              /\ q1.pc = "memory" =>
                   /\ q1.conversation # NoDoc
                   /\ q1.memoryReads = 0 /\ q1.providerCalls = 0
              /\ store' = store
         /\ q.pc = "memory" =>
              /\ variant = "groq"
              /\ q.conversation # NoDoc
              /\ q.providerCalls = 0 /\ q.storeWrites = 0
              /\ q1.pc = "provider"
              /\ q1.memoryReads = 1
              /\ q1.crossChatKnowledge \in
                   {getUserLongTermMemory(store, q.user, q.conversationId),
                    HistoryError}
              /\ store' = store
         /\ q1.pc = "provider" =>
              /\ q1.providerCalls = 1 /\ q1.storeWrites = 0
              /\ variant = "groq" =>
                   /\ q.pc = "memory" /\ q1.memoryReads = 1
                   /\ q1.crossChatKnowledge # NoDigest
                   /\ messagesForAPI(variant, q1)[1].digest =
                        q1.crossChatKnowledge
         /\ q.pc = "provider" =>
              /\ q1.pc \in {"save", "done"}
              /\ q1.pc = "done" => q1.status = 500
              /\ q1.providerCalls = 1 /\ q1.storeWrites = 0
              /\ store' = store
         /\ q.pc = "save" =>
              /\ q.providerCalls = 1 /\ q.storeWrites = 0
              /\ q1.pc \in {"saved", "done"}
              /\ q1.pc = "saved" =>
                   q1.status = 0 /\ q1.storeWrites = 1 /\ store' # store
              /\ q1.pc = "done" =>
                   q1.status = 500 /\ q1.storeWrites = 0 /\ store' = store
         /\ q.pc = "saved" =>
              /\ q.providerCalls = 1 /\ q.storeWrites = 1
              /\ q1.pc = "done" /\ q1.status = 200
              /\ store' = store
         /\ q1.pc = "done" /\ q1.status = 200 => q.pc \in {"saved", "sc_saved"}]_vars

\* C16 witness: a Groq-variant chat that resumed a conversation was answered
\* 200 after one lookup, one memory read, one provider call and one save
C16_Witness ==
  \E r \in Requests :
    /\ variant = "groq"
    /\ reqs[r].pc = "done" /\ reqs[r].kind = "chat" /\ reqs[r].status = 200
    /\ reqs[r].newConversationId = reqs[r].conversationId
    /\ reqs[r].storeReads = 2 /\ reqs[r].memoryReads = 1
    /\ reqs[r].personaBuilds = 1 /\ reqs[r].providerCalls = 1
    /\ reqs[r].storeWrites = 1

\* C17: a memory read that fails does not end the request: the digest is the
\* error text, no response is sent, the provider is called with that digest;
\* and a request whose digest is the error text is answered 200 with its two
\* messages stored whenever the provider and the save succeed.
C17_MemoryFailureIsSoft ==
  [][\A r \in Requests :
       LET q == reqs[r]
           q1 == reqs'[r] IN
       /\ (q.pc = "memory" /\ StepOf(r)
             /\ q1.crossChatKnowledge #
                  getUserLongTermMemory(store, q.user, q.conversationId)) =>
            /\ q1.crossChatKnowledge = HistoryError
            /\ q1.pc = "provider" /\ q1.status = 0 /\ q1.err = ""
            /\ q1.providerCalls = 1
            /\ messagesForAPI(variant, q1)[1].digest = HistoryError
       /\ (q.crossChatKnowledge = HistoryError /\ StepOf(r)) =>
            /\ q.pc = "provider" => (q1.pc = "save" \/ q1.err = "provider")
            /\ q.pc = "save" => (q1.pc = "saved" \/ q1.err = "store")
            /\ (q.pc = "save" /\ q1.pc = "saved") =>
                 LET id == q.conversation.id IN
                 /\ id \in DOMAIN store'
                 /\ Len(store'[id].messages) >= 2
                 /\ SubSeq(store'[id].messages,
                           Len(store'[id].messages) - 1,
                           Len(store'[id].messages)) =
                      <<Message("user", q.prompt), LastMessage(q)>>
            /\ q.pc = "saved" =>
                 /\ q1.pc = "done" /\ q1.status = 200
                 /\ q1.aiMessage = LastMessage(q)]_vars

\* C17 witness: a chat that sent no conversationId was answered 200 and its
\* new conversation holds the two messages, although its only store read,
\* the memory read, was started and did not return
C17_Witness ==
  \E r \in Requests :
    /\ reqs[r].pc = "done" /\ reqs[r].kind = "chat" /\ reqs[r].status = 200
    /\ reqs[r].conversationId = NoId
    /\ reqs[r].memoryReads = 1 /\ reqs[r].storeReads = 0
    /\ reqs[r].providerCalls = 1 /\ reqs[r].storeWrites = 1
    /\ reqs[r].newConversationId \in DOMAIN store
    /\ Len(store[reqs[r].newConversationId].messages) = 2

\* C18: while the provider call of a request is in flight, the messages sent
\* are the system message, then one entry per message the request loaded from
\* the store, in stored order, with role assistant for sender ai and role user
\* for sender user, then the new prompt with role user; the same in both
\* variants, and system plus prompt alone for a new conversation.
C18_Transcript ==
  \A r \in Requests :
    reqs[r].pc = "provider" =>
      LET m == messagesForAPI(variant, reqs[r])
          h == reqs[r].loaded
      IN /\ Len(m) = Len(h) + 2
         /\ m[1].role = "system"
         /\ \A i \in 1..Len(h) :
              m[i + 1] = [role |-> IF h[i].sender = "ai" THEN "assistant"
                                   ELSE "user",
                          content |-> h[i].content]
         /\ m[Len(m)] = [role |-> "user", content |-> reqs[r].prompt]
         /\ reqs[r].resumed =>
              /\ reqs[r].conversationId \in DOMAIN store =>
                   IsPrefix(h, store[reqs[r].conversationId].messages)
              /\ Len(h) >= 2
         /\ ~reqs[r].resumed => h = <<>>

\* C18 witness: the provider call of a request that resumed a stored
\* conversation is in flight and its transcript has an assistant entry for
\* the stored ai message, before the new prompt
C18_Witness ==
  \E r \in Requests :
    /\ reqs[r].pc = "provider" /\ reqs[r].resumed
    /\ reqs[r].loaded[2].sender = "ai"
    /\ messagesForAPI(variant, reqs[r])[3].role = "assistant"
    /\ Len(messagesForAPI(variant, reqs[r])) = 4

\* DELETE request r was answered 200: the conversation it named was removed
DeleteSucceeded(q) == q.kind = "delete" /\ q.pc = "done" /\ q.status = 200

\* C19: once a DELETE was answered 200, the conversation it named is not in
\* the store after that step nor after any later step, the save of a chat that
\* loaded it before the delete included (that save finds no document and
\* fails); a later GET of the id that gets an answer from the store gets 404,
\* and no later save of a chat is applied to that id.
C19_DeletionPermanent ==
  [][\A r \in Requests :
       /\ DeleteSucceeded(reqs'[r]) =>
            reqs'[r].conversationId \notin DOMAIN store'
       /\ DeleteSucceeded(reqs[r]) =>
            \A r2 \in Requests :
              (StepOf(r2)
                 /\ reqs[r2].conversationId = reqs[r].conversationId) =>
                /\ (reqs[r2].kind \in {"get", "delete"}
                      /\ reqs'[r2].pc = "done") =>
                     reqs'[r2].status = IF reqs'[r2].err = "" THEN 404
                                        ELSE 500
                /\ ChatPersists(r2) =>
                     /\ reqs[r2].conversation.id # reqs[r].conversationId
                     /\ ~reqs[r2].resumed]_vars

\* C19 witness: a chat loaded a conversation, a DELETE of that conversation
\* was then answered 200, and the chat is about to save the document it holds
C19_Witness ==
  \E r, r2 \in Requests :
    /\ DeleteSucceeded(reqs[r])
    /\ reqs[r2].kind = "chat" /\ reqs[r2].pc \in {"save", "sc_save"}
    /\ reqs[r2].resumed
    /\ reqs[r2].conversation.id = reqs[r].conversationId
    /\ reqs[r].conversationId \notin DOMAIN store

\* the normalized prompt contains one of the phrases
HasPhrase(keywords, normalized) ==
  \E k \in {keywords[i] : i \in 1..Len(keywords)} : Includes(normalized, k)

\* C20: a classified prompt whose normalized text contains an identity phrase
\* is answered with the creator text, whether or not it also contains a date
\* phrase; the date text is the answer exactly when it contains a date phrase
\* and no identity phrase; with neither there is no shortcut.
C20_IdentityBeforeDate ==
  probe.stage = "classified" =>
    LET hasIdentity == HasPhrase(identityKeywords, probe.lowerCasePrompt)
        hasDate == HasPhrase(dateKeywords, probe.lowerCasePrompt)
    IN /\ hasIdentity =>
            /\ probe.category = "Identity"
            /\ probe.responseText = creatorResponse(variant)
       /\ (probe.category = "DateQuery") = (hasDate /\ ~hasIdentity)
       /\ (probe.responseText = dateResponse) = (hasDate /\ ~hasIdentity)
       /\ (probe.category = "None") = (~hasDate /\ ~hasIdentity)
       /\ probe.category = "None" => probe.responseText = <<>>

\* C20 witness: a prompt containing both an identity phrase and a date phrase
\* has been classified, as Identity
C20_Witness ==
  /\ probe.stage = "classified"
  /\ HasPhrase(identityKeywords, probe.lowerCasePrompt)
  /\ HasPhrase(dateKeywords, probe.lowerCasePrompt)
  /\ probe.category = "Identity"

\* messages m hold the pair <<u, a>> as two adjacent messages
HoldsPair(m, u, a) ==
  \E k \in 1..(Len(m) - 1) : m[k] = u /\ m[k + 1] = a

\* messages m end with the pair <<u, a>>
EndsWithPair(m, u, a) ==
  Len(m) >= 2 /\ m[Len(m) - 1] = u /\ m[Len(m)] = a

\* C21 as stated: in the step that sends the success response of a chat, the
\* store holds the conversation named by the returned newConversationId, owned
\* by the caller, and its last two messages are the request's prompt as user
\* and the returned aiMessage.
C21_StoredWhenResponding ==
  [][\A r \in Requests : ChatSucceeds(r) =>
       LET id == reqs'[r].newConversationId IN
       /\ id \in DOMAIN store'
       /\ store'[id].userId = reqs[r].user
       /\ EndsWithPair(store'[id].messages,
                       Message("user", reqs[r].prompt),
                       reqs'[r].aiMessage)]_vars

\* C21 amended: a success response of a chat is sent only after the save of
\* the request was applied, and when that save was applied the store held the
\* conversation named by the returned newConversationId, owned by the caller,
\* ending with the prompt as user and the returned aiMessage; when the
\* response is sent the conversation still holds the two as adjacent
\* messages, unless its owner's DELETE removed it in between.
C21_PersistPrecedesRespond ==
  [][\A r \in Requests :
       /\ ChatPersists(r) =>
            LET id == reqs[r].conversation.id IN
            /\ id \in DOMAIN store'
            /\ store'[id].userId = reqs[r].user
            /\ EndsWithPair(store'[id].messages,
                            Message("user", reqs[r].prompt),
                            LastMessage(reqs[r]))
            /\ reqs'[r].status = 0
       /\ (reqs'[r].kind = "chat" /\ reqs'[r].status = 200 /\ StepOf(r)) =>
            LET id == reqs'[r].newConversationId IN
            /\ reqs[r].pc \in {"saved", "sc_saved"}
            /\ reqs[r].storeWrites = 1
            /\ id = reqs[r].conversation.id
            /\ reqs'[r].aiMessage = LastMessage(reqs[r])
            /\ reqs'[r].aiMessage.sender = "ai"
            /\ \/ /\ id \in DOMAIN store'
                  /\ store'[id].userId = reqs[r].user
                  /\ HoldsPair(store'[id].messages,
                               Message("user", reqs[r].prompt),
                               reqs'[r].aiMessage)
               \/ /\ id \notin DOMAIN store'
                  /\ \E r2 \in Requests :
                       /\ DeleteSucceeded(reqs[r2])
                       /\ reqs[r2].conversationId = id
                       /\ reqs[r2].user = reqs[r].user]_vars

\* C21 witness: the save of a chat was applied, the owner's DELETE of the
\* conversation was answered 200 after it, and the chat's success response is
\* about to be sent
C21_Witness ==
  \E r, r2 \in Requests :
    /\ reqs[r].kind = "chat" /\ reqs[r].pc \in {"saved", "sc_saved"}
    /\ reqs[r].storeWrites = 1
    /\ DeleteSucceeded(reqs[r2])
    /\ reqs[r2].conversationId = reqs[r].conversation.id
    /\ reqs[r].conversation.id \notin DOMAIN store

\* C22: when the memory read of a chat by user u returns, every conversation
\* it fetched is owned by u and every line of the digest is the summary of
\* one of them, whatever conversationId the request supplied; the system
\* message sent to the provider carries that digest and nothing else from the
\* store, so no title or message of another user's conversation is in it.
C22_DigestOwnConversationsOnly ==
  [][\A r \in Requests :
       /\ MemoryReturned(r) =>
            LET q == reqs'[r]
                past == q.pastConversations
                lines == q.crossChatKnowledge.lines
            IN /\ Len(lines) = Len(past)
               /\ \A i \in 1..Len(past) :
                    /\ past[i] \in DOMAIN store
                    /\ store[past[i]].userId = q.user
                    /\ lines[i] = SummaryLine(store[past[i]])
               /\ \A j \in DOMAIN store :
                    (store[j].userId # q.user
                       /\ \A i \in DOMAIN store :
                            store[i].userId = q.user =>
                              store[i].title # store[j].title) =>
                      \A i \in 1..Len(lines) :
                        lines[i].topic # store[j].title
       /\ (StepOf(r) /\ reqs'[r].pc = "provider") =>
            /\ messagesForAPI(variant, reqs'[r])[1].digest =
                 reqs'[r].crossChatKnowledge
            /\ variant # "groq" => reqs'[r].crossChatKnowledge = NoDigest
            /\ reqs'[r].crossChatKnowledge.kind # "summary" =>
                 reqs'[r].crossChatKnowledge.lines = <<>>
            /\ reqs'[r].crossChatKnowledge.kind = "summary" =>
                 MemoryReturned(r)]_vars

\* C22 witness: a chat that supplied the id of another user's conversation is
\* at the provider call with a digest of its own conversations, while that
\* other conversation, whose title none of the caller's has, is in the store
C22_Witness ==
  \E r \in Requests :
    /\ reqs[r].pc = "provider"
    /\ reqs[r].conversationId \in DOMAIN store
    /\ store[reqs[r].conversationId].userId # reqs[r].user
    /\ reqs[r].crossChatKnowledge.kind = "summary"
    /\ Len(reqs[r].crossChatKnowledge.lines) = MemoryLimit
    /\ \A i \in 1..Len(reqs[r].crossChatKnowledge.lines) :
         reqs[r].crossChatKnowledge.lines[i].topic
           # store[reqs[r].conversationId].title
====
